---- MODULE Spec2Model ----
(***************************************************************************)
(* Hierarchical classification-and-enrichment pipeline.                    *)
(*                                                                         *)
(* Texts are TLA+ strings handled character by character (Len, SubSeq,     *)
(* \o), so that the cleaning and parsing of a completion response is       *)
(* computed the way the Python code computes it.                           *)
(***************************************************************************)
EXTENDS Integers, Sequences, FiniteSets, TLC

(***************************************************************************)
(* Python string primitives                                                *)
(***************************************************************************)

\* s[i] as a one-character string (1-based)
Ch(s, i) == SubSeq(s, i, i)

\* s[i:] and s[:i] in 1-based form
From(s, i) == IF i > Len(s) THEN "" ELSE SubSeq(s, i, Len(s))
Upto(s, i) == IF i < 1 THEN "" ELSE SubSeq(s, 1, i)

UpperChars == "ABCDEFGHIJKLMNOPQRSTUVWXYZ"
LowerChars == "abcdefghijklmnopqrstuvwxyz"
DigitChars == "0123456789"

\* position of the one-character string c in the string alphabet, 0 if absent
RECURSIVE IndexIn(_, _, _)
IndexIn(alphabet, c, i) ==
    IF i > Len(alphabet) THEN 0
    ELSE IF Ch(alphabet, i) = c THEN i
    ELSE IndexIn(alphabet, c, i + 1)

IsLower(c) == IndexIn(LowerChars, c, 1) > 0
IsUpper(c) == IndexIn(UpperChars, c, 1) > 0
IsDigit(c) == IndexIn(DigitChars, c, 1) > 0
\* str.isspace for the ASCII whitespace characters
IsSpace(c) == c \in {" ", "\t", "\n", "\r", "\f"}
\* the line boundaries str.splitlines breaks at
IsLineBreak(c) == c \in {"\n", "\r", "\f"}

LowerCh(c) == IF IsUpper(c) THEN Ch(LowerChars, IndexIn(UpperChars, c, 1)) ELSE c
UpperCh(c) == IF IsLower(c) THEN Ch(UpperChars, IndexIn(LowerChars, c, 1)) ELSE c

\* str.lower()
RECURSIVE Lower(_)
Lower(s) == IF s = "" THEN "" ELSE LowerCh(Ch(s, 1)) \o Lower(From(s, 2))

\* s.startswith(p)
StartsWith(s, p) == Len(p) <= Len(s) /\ SubSeq(s, 1, Len(p)) = p

\* s.find(p) in 1-based form: the least i with s[i:].startswith(p), 0 if none
RECURSIVE FindFrom(_, _, _)
FindFrom(s, p, i) ==
    IF i + Len(p) - 1 > Len(s) THEN 0
    ELSE IF SubSeq(s, i, i + Len(p) - 1) = p THEN i
    ELSE FindFrom(s, p, i + 1)

Find(s, p) == FindFrom(s, p, 1)

\* p in s
Contains(s, p) == Find(s, p) > 0

\* s.replace(c, "") for a one-character c
RECURSIVE Remove(_, _)
Remove(s, c) ==
    IF s = "" THEN ""
    ELSE (IF Ch(s, 1) = c THEN "" ELSE Ch(s, 1)) \o Remove(From(s, 2), c)

\* s.lstrip(), s.rstrip(), s.strip()
RECURSIVE LStrip(_)
LStrip(s) == IF s # "" /\ IsSpace(Ch(s, 1)) THEN LStrip(From(s, 2)) ELSE s

RECURSIVE RStrip(_)
RStrip(s) ==
    IF s # "" /\ IsSpace(Ch(s, Len(s))) THEN RStrip(Upto(s, Len(s) - 1)) ELSE s

Strip(s) == RStrip(LStrip(s))

\* s.splitlines(): the list of lines; the empty string has no line
RECURSIVE LineEnd(_, _)
LineEnd(s, i) ==
    IF i > Len(s) THEN 0
    ELSE IF IsLineBreak(Ch(s, i)) THEN i
    ELSE LineEnd(s, i + 1)

\* s.splitlines()[0] of a non-empty string (the empty string has no line:
\* the callers raise IndexError there)
FirstLine(s) ==
    IF LineEnd(s, 1) = 0 THEN s ELSE Upto(s, LineEnd(s, 1) - 1)

\* s.split(sep)[0] and s.split(sep)[1], for a separator that occurs in s
Part0(s, sep) == Upto(s, Find(s, sep) - 1)

Part1(s, sep) ==
    LET rest == From(s, Find(s, sep) + Len(sep))
    IN  IF Contains(rest, sep) THEN Upto(rest, Find(rest, sep) - 1) ELSE rest

\* value of a run of decimal digits, underscores skipped
RECURSIVE DigitsValue(_, _)
DigitsValue(s, acc) ==
    IF s = "" THEN acc
    ELSE IF Ch(s, 1) = "_" THEN DigitsValue(From(s, 2), acc)
    ELSE DigitsValue(From(s, 2), 10 * acc + (IndexIn(DigitChars, Ch(s, 1), 1) - 1))

\* digits, with single underscores allowed between two digits
RECURSIVE IsIntBody(_, _)
IsIntBody(s, prevDigit) ==
    IF s = "" THEN prevDigit
    ELSE IF IsDigit(Ch(s, 1)) THEN IsIntBody(From(s, 2), TRUE)
    ELSE IF Ch(s, 1) = "_" THEN prevDigit /\ IsIntBody(From(s, 2), FALSE)
    ELSE FALSE

\* int(s): surrounding whitespace, an optional sign, then the digits;
\* ok = FALSE stands for the ValueError
int(s) ==
    LET t    == Strip(s)
        neg  == t # "" /\ Ch(t, 1) = "-"
        body == IF t # "" /\ Ch(t, 1) \in {"-", "+"} THEN From(t, 2) ELSE t
    IN  IF body # "" /\ IsIntBody(body, FALSE)
        THEN [ok |-> TRUE,
              val |-> IF neg THEN 0 - DigitsValue(body, 0) ELSE DigitsValue(body, 0)]
        ELSE [ok |-> FALSE, val |-> 0]

(***************************************************************************)
(* re.findall(r"([a-z\s&]+)\|confidence[:\s]*([0-9]{1,3})%", s)[0]         *)
(***************************************************************************)

InLabelClass(c) == IsLower(c) \/ IsSpace(c) \/ c = "&"

\* end of the run of characters satisfying the class that starts at i
\* (i - 1 when the run is empty)
RECURSIVE LabelRunEnd(_, _)
LabelRunEnd(s, i) ==
    IF i <= Len(s) /\ InLabelClass(Ch(s, i)) THEN LabelRunEnd(s, i + 1) ELSE i - 1

RECURSIVE SepRunEnd(_, _)
SepRunEnd(s, i) ==
    IF i <= Len(s) /\ (Ch(s, i) = ":" \/ IsSpace(Ch(s, i)))
    THEN SepRunEnd(s, i + 1) ELSE i - 1

RECURSIVE DigitRunEnd(_, _)
DigitRunEnd(s, i) ==
    IF i <= Len(s) /\ IsDigit(Ch(s, i)) THEN DigitRunEnd(s, i + 1) ELSE i - 1

\* the match that starts at position i, if there is one.  No character of a
\* group's class can follow the group in the pattern, so each greedy group
\* takes its whole run and backtracking never finds a shorter match.
MatchAt(s, i) ==
    LET e1 == LabelRunEnd(s, i)
        k  == e1 + 1 + Len("|confidence")
        e2 == SepRunEnd(s, k)
        e3 == DigitRunEnd(s, e2 + 1)
    IN  IF /\ e1 >= i
           /\ StartsWith(From(s, e1 + 1), "|confidence")
           /\ e3 - e2 \in 1..3
           /\ e3 < Len(s)
           /\ Ch(s, e3 + 1) = "%"
        THEN [ok |-> TRUE, g1 |-> SubSeq(s, i, e1), g2 |-> SubSeq(s, e2 + 1, e3)]
        ELSE [ok |-> FALSE, g1 |-> "", g2 |-> ""]

RECURSIVE FirstMatchFrom(_, _)
FirstMatchFrom(s, i) ==
    IF i > Len(s) THEN [ok |-> FALSE, g1 |-> "", g2 |-> ""]
    ELSE IF MatchAt(s, i).ok THEN MatchAt(s, i)
    ELSE FirstMatchFrom(s, i + 1)

\* matches[0] of re.findall, ok = FALSE when the list of matches is empty
FirstMatch(s) == FirstMatchFrom(s, 1)

(***************************************************************************)
(* Taxonomy Store of src/app.py (the same data is repeated in              *)
(* src/attributes_extraction_using_llms/app.py).  A Python list is used    *)
(* for membership tests only and is modelled as a set; a dict is a         *)
(* function whose DOMAIN is its key set.                                   *)
(***************************************************************************)

shopping_categories ==
    {"stationary", "restaurants", "electronics", "pharmacies", "pet care",
     "home and garden", "beauty", "entertainment", "health and nutrition",
     "groceries", "fashion", "automotive", "sports", "kids",
     "flowers and gifts"}

fashion_subcategories ==
    {"baby clothes", "undergarments", "accessories", "casual wear",
     "home decor", "beach wear", "outerwear", "neckwear and scarf",
     "formal wear", "sports wear", "swimwear", "designer wear", "sports",
     "outdoor sports", "footwear", "martial arts", "sleepwear",
     "medical wear", "kids wear", "jewelry", "religious wear",
     "fitness and training", "maternity", "water sports", "eyewear"}

beauty_subcategories ==
    {"skincare", "haircare", "fragrances", "cosmetics"}

home_subcategories ==
    {"drinkware", "home decor", "hardware and home improvement", "tableware",
     "lighting", "kitchenwear", "gardening and outdoor", "bakeware",
     "outdoor sports", "household products", "storage and organization",
     "appliances", "home essentials", "bed and bath", "fitness and training",
     "furniture", "kitchenware"}

stationary_subcategory ==
    {"office supplies", "stationary", "stationary supplies",
     "arts and crafts", "school supplies", "stationary accessories"}

restaurants_subcategory ==
    {"desserts", "mexican", "pizza", "specialty foods", "egyptian",
     "burgers", "korean", "fast food", "street food", "restaurants",
     "japanese", "italian", "cafes", "mediterranean", "vegan", "salads",
     "asian", "vietnamese", "lebanese", "international", "pasta", "chinese",
     "bakery and cakes", "french", "juices & drinks", "thai", "sandwiches",
     "seafood", "sushi", "keto", "grills", "healthy", "vegetarian", "indian",
     "american", "middle eastern", "juices and drinks"}

pharmacies_subcategory ==
    {"sportswear", "specialty foods", "first aid and medical equipment",
     "haircare", "dietary supplements", "men's care", "vitamins", "skincare",
     "women's deodorant", "medicine", "eye care", "dental care",
     "incontinence", "women's care"}

pet_care_subcategory ==
    {"aquatic animals", "horses", "dogs", "birds", "small pet supplies",
     "cats"}

sports_subcategory ==
    {"outdoor sports", "sports", "footwear", "team sports", "winter sports",
     "recreational activities", "swimwear", "fitness and training",
     "accessories", "water sports", "martial arts", "sportswear"}

entertainment_subcategory ==
    {"books", "gaming", "music", "musical instruments", "toys and games",
     "musical equipment"}

health_and_nutrition_subcategory ==
    {"natural solutions", "weight management", "specialty foods",
     "men's care", "performance supplements", "protein products", "vitamins",
     "dietary supplements"}

groceries_subcategory ==
    {"salads", "supermarkets", "specialty foods", "mini marts",
     "bakery and cakes", "desserts", "cafes"}

automotive_subcategory ==
    {"auto accessories", "motorcycle care"}

kids_subcategory ==
    {"baby safety products", "baby care", "baby furniture", "kids furniture",
     "baby travel", "baby clothes", "swimwear", "kids furniture accessory",
     "toys and games"}

flowers_and_gifts_subcategory ==
    {"flowers", "gifts"}

subcategory_map ==
    ("fashion" :> fashion_subcategories)
    @@ ("beauty" :> beauty_subcategories)
    @@ ("home and garden" :> home_subcategories)
    @@ ("stationary" :> stationary_subcategory)
    @@ ("restaurants" :> restaurants_subcategory)
    @@ ("pharmacies" :> pharmacies_subcategory)
    @@ ("pet care" :> pet_care_subcategory)
    @@ ("sports" :> sports_subcategory)
    @@ ("entertainment" :> entertainment_subcategory)
    @@ ("health and nutrition" :> health_and_nutrition_subcategory)
    @@ ("groceries" :> groceries_subcategory)
    @@ ("gifts and flowers" :> flowers_and_gifts_subcategory)
    @@ ("automotive" :> automotive_subcategory)
    @@ ("kids" :> kids_subcategory)
    @@ ("flowers and gifts" :> flowers_and_gifts_subcategory)

fashion_item_categories ==
    ("baby clothes" :>
        {"onesie", "diaper shirt", "babygrow", "lap tee", "romper",
         "baby shoe", "jumpsuit", "baby sock", "baby gown", "baby mitten",
         "diaper cover", "baby leggings", "bloomers", "baby accessory"})
    @@ ("undergarments" :>
        {"undershirt", "nightgown", "bra", "camisole", "panty", "baby doll",
         "boxers", "slip", "briefs", "corset"})
    @@ ("accessories" :>
        {"belt", "bag", "headwear", "hair accessories", "glove", "umbrella",
         "wallet", "luggage", "briefcase", "trunk", "laptopcase", "hand fan",
         "watch"})
    @@ ("casual wear" :>
        {"apron", "top", "trousers", "blouse", "t-shirt", "shirt", "vest",
         "pants", "shorts", "leggings", "skirt", "dress", "outfit", "skort"})
    @@ ("beach wear" :>
        {"bathing cover"})
    @@ ("outerwear" :>
        {"sweatshirt", "sweater", "tank top", "jacket", "coat", "overalls",
         "jeans", "kimono"})
    @@ ("neckwear and scarf" :>
        {"tie", "shawl", "ascot", "pashmina", "boa", "scarf", "handkerchief",
         "bandana"})
    @@ ("formal wear" :>
        {"blazer", "suit", "uniform", "rope"})
    @@ ("sports wear" :>
        {"sportswear"})
    @@ ("swimwear" :>
        {"swimsuit"})
    @@ ("footwear" :>
        {"sandals", "slippers", "boot", "sports shoe", "shoe", "stocking",
         "sock", "shoe accessory"})
    @@ ("sleepwear" :>
        {"pajamas"})
    @@ ("jewelry" :>
        {"earrings", "necklace", "bracelet", "broche", "pendant", "cufflink",
         "head ornament", "jewelry box", "ring", "jewelry set", "tie pin"})
    @@ ("religious wear" :>
        {"islamic religious wear", "christian religious wear"})
    @@ ("maternity" :>
        {"maternity"})
    @@ ("eyewear" :>
        {"glasses", "sunglasses"})

beauty_item_categories ==
    ("skincare" :>
        {"foot care", "hand care", "loofah and sponge", "cotton",
         "hair removal", "face treatment", "anti-aging", "eye treatment",
         "acne", "skin whitening", "dark spot", "sunscreen", "face soap",
         "face scrub", "face toner", "face moisturizer", "face cleanser",
         "face mask", "hand soap", "body scrub", "bath soap", "bath salt",
         "bath cream", "shower gel", "body moisturizer", "body oil",
         "face roller", "skincare accessory", "injectables", "skincare set"})
    @@ ("haircare" :>
        {"hair gel", "hair brush and comb", "hair mousse",
         "hair styling tool", "hair wax", "hair dye", "hair spray",
         "hair loss", "hair cream", "hair shampoo", "hair conditioner",
         "hair oil", "hair mask", "hair serum", "haircare set",
         "hair treatment"})
    @@ ("fragrances" :>
        {"body spray", "cologne", "perfume"})
    @@ ("cosmetics" :>
        {"eye make-up", "lip make-up", "face make-up", "nailcare",
         "cosmetics accessory", "make-up tool", "body make-up",
         "cosmetic set"})

home_item_categories ==
    ("drinkware" :>
        {"cup", "glass", "mug", "wine glass", "champagne flute",
         "martini glass", "beer glass", "sake cup", "sherry glass",
         "shot glass", "cognac glass", "margarira glass", "brandy glass",
         "whisky glass", "rummer", "tumbler", "teacup", "beaker", "coaster",
         "pitcher", "carafe", "jar", "wine opener", "flask", "trembleuse",
         "straw", "drinkware accessory"})
    @@ ("home decor" :>
        {"wallpaper", "clock", "candle", "vase", "tapestery", "wall art",
         "picture frame", "decorative plate", "home scent", "incense",
         "mirror", "potpurri", "home decor accessory"})
    @@ ("hardware and home improvement" :>
        {"home tool", "measuring tool", "plumbing tool", "electrical tool",
         "power tool", "hand tool", "welding", "duct tape", "cord",
         "flashlight", "nail and screw", "fastener and snap", "padlock",
         "shelf support", "window hardware", "home automation device"})
    @@ ("tableware" :>
        {"cutlery", "plate and bowl", "table linen"})
    @@ ("lighting" :>
        {"wall lighting", "lamp", "chandlier", "light bulb",
         "underwater lighting", "lighting accessory", "ceiling lighting",
         "floor lighting", "outdoor lighting", "lighting system"})
    @@ ("kitchenwear" :>
        {"cooking utensil", "cooking tool", "speciality cookwear",
         "ovenware", "pot and pan", "kitchen accessory"})
    @@ ("gardening and outdoor" :>
        {"gardening tool", "gardening equipment", "gardening care",
         "pool equipment"})
    @@ ("bakeware" :>
        {"baking pan", "bakeware utensil", "bakeware accessory"})
    @@ ("household products" :>
        {"cleaning tool", "cleaning products", "house supply"})
    @@ ("storage and organization" :>
        {"office storage and organization",
         "clothing storage and organization",
         "bathroom storage and organization",
         "bedroom storage and organization",
         "kitchen storage and organization",
         "outdoor storage and organization", "kids storage and organization",
         "garage storage and organization"})
    @@ ("appliances" :>
        {"personal appliances", "kitchen appliance", "home appliance",
         "heating and cooling unit", "cleaning appliance",
         "specialty appliance"})
    @@ ("bed and bath" :>
        {"bath linen", "bath accessory", "bathroom hardware", "bedding"})
    @@ ("furniture" :>
        {"bedroom furniture", "kitchen furniture", "bathroom furniture",
         "dining room furniture", "living room furniture",
         "office furniture", "outdoor furniture", "furniture accessory",
         "kids furniture"})
    @@ ("kitchenware" :>
        {"french press", "percolator", "coffee pot", "tea pot",
         "tea strainer", "cookware set", "double boiler", "braiser",
         "saucier"})

stationary_item_categories ==
    ("office supplies" :>
        {"scissors", "sharpener", "desk organizer", "paper puncher",
         "notebook", "chalk board", "desk planner", "white board",
         "writing pad", "chalk", "stapler", "calendar", "sticky note",
         "folder", "crayon", "tack", "agenda", "sheet protector",
         "clip board", "photo album", "cork board",
         "office supply accessories"})
    @@ ("stationary" :>
        {"stationary"})
    @@ ("stationary supplies" :>
        {"document holder", "tape", "eraser", "glue", "pencil", "pen",
         "paper clip", "marker", "compass", "book cover", "bookmark", "ruler"})
    @@ ("arts and crafts" :>
        {"craft supply", "knitting", "sewing", "jewelry making", "painting",
         "drawing", "pottery", "sculpting", "basket making", "candle making",
         "doll making", "craft fabric", "floral arranging", "weaving",
         "print making", "arts and crafts set"})
    @@ ("school supplies" :>
        {"notebook", "writing pad", "chalk board", "chalk", "folder",
         "crayon", "pencil case", "clip board", "pencil holder",
         "cork board", "book cover", "bookmark", "school supply accessories",
         "ruler"})
    @@ ("stationary accessories" :>
        {"keychain", "pencil case", "pencil holder"})

category_item_map ==
    ("fashion" :> fashion_item_categories)
    @@ ("beauty" :> beauty_item_categories)
    @@ ("home and garden" :> home_item_categories)
    @@ ("stationary" :> stationary_item_categories)

(***************************************************************************)
(* Taxonomy Store of the Flask and JSON services.  Their Level-1 list is   *)
(* written out in the services; the three maps are imported from the       *)
(* module `mapping`, which is not part of the sources at hand: Levels 2    *)
(* and 3 are taken to be the maps above, Level 4 (keyed by Level 1, then   *)
(* Level 3) is a small map built on the examples of the Level-4 service.   *)
(***************************************************************************)

shoppingCategory ==
    {"stationary", "restaurants", "electronics", "pharmacies", "pet care",
     "home and garden", "beauty", "entertainment", "health and nutrition",
     "groceries", "fashion", "automotive", "sports", "kids",
     "flowers and gifts"}

shoppingSubcategory_map == subcategory_map

itemCategory_map == category_item_map

itemSubcategory_map ==
    ("fashion" :>
        (("top" :> {"t-shirt", "tank top"})
         @@ ("t-shirt" :> {"polo shirt", "graphic tee"})
         @@ ("sweater" :> {"sweatshirt"})))

(***************************************************************************)
(* Completion Client.  An outcome of one request is either a response text *)
(* or a failure (timeout, non-2xx status, malformed JSON).                 *)
(***************************************************************************)

Reply(text) == [ok |-> TRUE, text |-> text]
Failure == [ok |-> FALSE, text |-> ""]

\* run_model of the Flask and JSON services: the stripped response text.
\* On a failure requests.post / raise_for_status / r.json() raise; the
\* callers below test out.ok first and propagate the exception.
run_model(out) == Strip(out.text)

\* ollama_local of src/app.py: every exception is caught and turned into ""
ollama_local(out) == IF out.ok THEN Strip(out.text) ELSE ""

(***************************************************************************)
(* What one classifier call yields: the returned pair, whether a           *)
(* completion request was issued, and whether the call raised instead of   *)
(* returning.                                                              *)
(***************************************************************************)

Returned(label, confidence) ==
    [label |-> label, confidence |-> confidence, called |-> TRUE, raised |-> FALSE]

ShortCircuit == [label |-> "", confidence |-> 0, called |-> FALSE, raised |-> FALSE]

Raised == [label |-> "", confidence |-> 0, called |-> TRUE, raised |-> TRUE]

\* a validation that lets every parsed label through
ValidateUnchecked(label, confidence, allowed) == Returned(label, confidence)

\* a validation that blanks a rejected label and keeps the parsed confidence
ValidateKeepingConfidence(label, confidence, allowed) ==
    IF label \notin allowed THEN Returned("", confidence) ELSE Returned(label, confidence)

\* the "# validate" tail shared by the four classifiers
Validate(label, confidence, allowed) ==
    IF label \notin allowed THEN Returned("", 0) ELSE Returned(label, confidence)

\* result.lower().replace("'", "").replace('"', "").strip()
CleanQuotes(s) == Strip(Remove(Remove(Lower(s), "'"), "\""))

(***************************************************************************)
(* Level classifiers of flask_apis/api_master_pipeline.py (the JSON        *)
(* services json_api_1_shopping_category, json_api_2, json_api_3 and       *)
(* json_api_4 hold the same functions line for line).                      *)
(***************************************************************************)

\* Level 1
classify_shopping_category(out) ==
    IF ~out.ok THEN Raised
    ELSE LET result     == CleanQuotes(run_model(out))
             matches    == FirstMatch(result)
             category   == IF matches.ok THEN Strip(matches.g1) ELSE ""
             confidence == IF matches.ok THEN int(matches.g2).val ELSE 0
         IN  Validate(category, confidence, shoppingCategory)

\* the parse of Levels 3 and 4: the label and the confidence text are taken
\* around the first "|confidence" of the whole cleaned response
ParseLabel(result) ==
    IF Contains(result, "|confidence")
    THEN Remove(Strip(Part0(result, "|confidence")), ":")
    ELSE Strip(result)

ParseConfidence(result) ==
    IF Contains(result, "|confidence")
    THEN LET c == int(Strip(Remove(Remove(Part1(result, "|confidence"), "%"), ":")))
         IN  IF c.ok THEN c.val ELSE 0
    ELSE 0

\* a Level 2 that validates against the subcategories of every category
\* when the category handed in is not a key of the map
classify_shopping_subcategory_any_parent(shopping_category, out) ==
    IF ~out.ok THEN Raised
    ELSE LET stripped == Strip(Lower(run_model(out)))
             allowed ==
                 IF shopping_category \in DOMAIN shoppingSubcategory_map
                 THEN shoppingSubcategory_map[shopping_category]
                 ELSE UNION {shoppingSubcategory_map[c] : c \in DOMAIN shoppingSubcategory_map}
         IN  IF stripped = "" THEN Raised
             ELSE LET result == Strip(Remove(Remove(Remove(FirstLine(stripped),
                                                    "'"), "\""), ":"))
                      hasConf == Contains(result, "|confidence")
                      subcategory ==
                          IF hasConf THEN Strip(Part0(result, "|confidence"))
                          ELSE Strip(result)
                      c == int(Strip(Remove(Strip(Part1(result, "|confidence")), "%")))
                      confidence == IF hasConf /\ c.ok THEN c.val ELSE 0
                  IN  Validate(subcategory, confidence, {Lower(x) : x \in allowed})

\* Level 2
classify_shopping_subcategory(shopping_category, out) ==
    IF shopping_category = "" \/ shopping_category \notin DOMAIN shoppingSubcategory_map
    THEN ShortCircuit
    ELSE IF ~out.ok THEN Raised
    ELSE LET stripped == Strip(Lower(run_model(out)))
         IN  IF stripped = "" THEN Raised    \* splitlines()[0]: IndexError
             ELSE LET result == Strip(Remove(Remove(Remove(FirstLine(stripped),
                                                    "'"), "\""), ":"))
                      hasConf == Contains(result, "|confidence")
                      subcategory ==
                          IF hasConf THEN Strip(Part0(result, "|confidence"))
                          ELSE Strip(result)
                      c == int(Strip(Remove(Strip(Part1(result, "|confidence")), "%")))
                      confidence == IF hasConf /\ c.ok THEN c.val ELSE 0
                  IN  Validate(subcategory, confidence,
                               {Lower(x) : x \in shoppingSubcategory_map[shopping_category]})

\* a Level 3 that tests its ancestors only after the completion request
classify_item_category_late_guard(shopping_category, shopping_subcategory, out) ==
    IF ~out.ok THEN Raised
    ELSE IF shopping_category = "" \/ shopping_subcategory = "" THEN Returned("", 0)
    ELSE IF shopping_category \notin DOMAIN itemCategory_map THEN Returned("", 0)
    ELSE IF shopping_subcategory \notin DOMAIN itemCategory_map[shopping_category]
    THEN Returned("", 0)
    ELSE LET result == CleanQuotes(run_model(out))
         IN  Validate(ParseLabel(result), ParseConfidence(result),
                      itemCategory_map[shopping_category][shopping_subcategory])

\* Level 3
classify_item_category(shopping_category, shopping_subcategory, out) ==
    IF shopping_category = "" \/ shopping_subcategory = "" THEN ShortCircuit
    ELSE IF shopping_category \notin DOMAIN itemCategory_map THEN ShortCircuit
    ELSE IF shopping_subcategory \notin DOMAIN itemCategory_map[shopping_category]
    THEN ShortCircuit
    ELSE IF ~out.ok THEN Raised
    ELSE LET result == CleanQuotes(run_model(out))
         IN  Validate(ParseLabel(result), ParseConfidence(result),
                      itemCategory_map[shopping_category][shopping_subcategory])

\* Level 4
classify_item_subcategory(shopping_category, shopping_subcategory, item_category, out) ==
    IF shopping_category = "" \/ shopping_subcategory = "" \/ item_category = ""
    THEN ShortCircuit
    ELSE IF \/ shopping_category \notin DOMAIN itemSubcategory_map
            \/ item_category \notin DOMAIN itemSubcategory_map[shopping_category]
    THEN ShortCircuit
    ELSE IF ~out.ok THEN Raised
    ELSE LET result == CleanQuotes(run_model(out))
         IN  Validate(ParseLabel(result), ParseConfidence(result),
                      itemSubcategory_map[shopping_category][item_category])

(***************************************************************************)
(* Level classifiers of src/app.py: a bare label is expected, there is no  *)
(* confidence, and the completion client never raises.                     *)
(***************************************************************************)

\* result.lower().replace("'", "").replace('"', "").replace(":", "").strip()
CleanAll(s) == Strip(Remove(Remove(Remove(Lower(s), "'"), "\""), ":"))

ValidateLabel(label, allowed) ==
    [label |-> IF label \notin allowed THEN "" ELSE label,
     called |-> TRUE, raised |-> FALSE]

NoLabel == [label |-> "", called |-> FALSE, raised |-> FALSE]

LabelRaised == [label |-> "", called |-> TRUE, raised |-> TRUE]

app_classify_shopping_category(out) ==
    ValidateLabel(CleanAll(Strip(ollama_local(out))), shopping_categories)

app_classify_shopping_subcategory(main_cat, out) ==
    IF main_cat = "" \/ main_cat \notin DOMAIN subcategory_map THEN NoLabel
    ELSE ValidateLabel(CleanAll(Lower(Strip(ollama_local(out)))),
                       subcategory_map[main_cat])

app_classify_item_category(main_cat, sub_cat, out) ==
    IF main_cat = "" \/ main_cat \notin DOMAIN category_item_map THEN NoLabel
    ELSE IF sub_cat = "" \/ sub_cat \notin DOMAIN category_item_map[main_cat] THEN NoLabel
    ELSE ValidateLabel(CleanAll(Lower(Strip(ollama_local(out)))),
                       category_item_map[main_cat][sub_cat])

(***************************************************************************)
(* Level classifiers of json_apis/json_api_1_category.py: a bare label on  *)
(* the first line of the response, no confidence; run_model raises.        *)
(***************************************************************************)

\* x.lower().replace("'", "").replace('"', "").strip(), then
\* x.splitlines()[0].strip() and the validation
FirstLineLabel(out, allowed) ==
    IF ~out.ok THEN LabelRaised
    ELSE LET cleaned == CleanQuotes(run_model(out))
         IN  IF cleaned = "" THEN LabelRaised    \* splitlines()[0]: IndexError
             ELSE ValidateLabel(Strip(FirstLine(cleaned)), allowed)

cat_classify_shopping_category(out) == FirstLineLabel(out, shoppingCategory)

cat_classify_shopping_subcategory(shopping_category, out) ==
    IF shopping_category = "" \/ shopping_category \notin DOMAIN shoppingSubcategory_map
    THEN NoLabel
    ELSE FirstLineLabel(out, {Lower(x) : x \in shoppingSubcategory_map[shopping_category]})

cat_classify_item_category(shopping_category, shopping_subcategory, out) ==
    IF shopping_category = "" \/ shopping_subcategory = "" THEN NoLabel
    ELSE IF shopping_category \notin DOMAIN itemCategory_map THEN NoLabel
    ELSE IF shopping_subcategory \notin DOMAIN itemCategory_map[shopping_category]
    THEN NoLabel
    ELSE FirstLineLabel(out, itemCategory_map[shopping_category][shopping_subcategory])

cat_classify_item_subcategory(shopping_category, shopping_subcategory, item_category, out) ==
    IF shopping_category = "" \/ shopping_subcategory = "" \/ item_category = ""
    THEN NoLabel
    ELSE IF \/ shopping_category \notin DOMAIN itemSubcategory_map
            \/ item_category \notin DOMAIN itemSubcategory_map[shopping_category]
    THEN NoLabel
    ELSE FirstLineLabel(out, itemSubcategory_map[shopping_category][item_category])

(***************************************************************************)
(* Pipeline Orchestrators                                                  *)
(*   "csv"  flask_apis/api_master_pipeline.py  process_csv_pipeline        *)
(*   "row"  src/app.py                         process_csv, process_row    *)
(*   "batch" attributes_extraction_using_llms/app.py  classify_batch       *)
(*   "item" json_apis/json_api_master_pipeline.py  process_item, which     *)
(*          reaches every stage through the HTTP service of that stage     *)
(*   "all"  json_apis/json_api_1_category.py   classify_all                *)
(***************************************************************************)

\* rows of one request
MaxRows == 2

\* what the completion service may answer in a pipeline run: labels in the
\* format the prompts of the orchestrator ask for ("label|confidence:NN%" in
\* the Flask and JSON services, the bare label in src/app.py and
\* json_api_1_category.py), a label without its confidence, text that is no
\* label, and the empty response
ScoredResponses ==
    {"fashion|confidence:90%", "casual wear|confidence:85%",
     "t-shirt|confidence:92%", "polo shirt|confidence:77%",
     "electronics|confidence:80%", "casual wear", "I cannot decide", ""}

BareResponses ==
    {"fashion", "casual wear", "t-shirt", "polo shirt", "electronics",
     "I cannot decide", ""}

\* the display sentinel
Sentinel == "template"

\* stages of one item: 1..4 the taxonomy levels, then the keyword
\* generators, the attribute extractor and the translation
SKW == 5
DSW == 6
ATTR == 7
TR == 8
Stages == 1..8

VARIABLES
    impl,      \* the orchestrator serving the request
    csv_path,  \* the csv_path field of the request body, None when absent
    mock,      \* the script the completion service follows
    n,         \* number of rows (items) of the request
    level,     \* the level of the classifier called on its own, 0 in a pipeline run
    pc,        \* position of the handler: "start", "L1".."L4", "SKW", "DSW", "ATTR",
               \* "TR", "done"
    idx,       \* row being processed (1-based)
    lab,       \* the orchestrator's label variables of the current row, by level
    conf,      \* its confidence variables
    calls,     \* completion requests issued for the current row, by stage
    passed,    \* taxonomy values handed to each stage of the current row
    records,   \* the rows completed so far
    status,    \* HTTP status of the reply, 0 while the handler runs
    item_name, \* generate_skw: the item name handed in
    skw,       \* generate_skw: the returned string
    images,    \* image aggregator: the images of the request, in order
    processed, \* positions of the images that were fetched, decoded and saved
    results,   \* the predictions of the last inference pass, one per image
    submitted, \* how many times each image was submitted to the vision model
    files,     \* temporary image files that exist
    features,  \* the features returned
    metadata   \* the metadata returned

\* the variables of the keyword generator and of the image aggregator
skwVars == <<item_name, skw>>
imageVars == <<images, processed, results, submitted, files, features, metadata>>

vars == <<impl, csv_path, mock, n, level, pc, idx, lab, conf, calls, passed, records, status,
          skwVars, imageVars>>

\* their values while another part of the program runs
Idle ==
    /\ item_name = "" /\ skw = ""
    /\ images = <<>> /\ processed = <<>> /\ results = <<>>
    /\ submitted = <<>> /\ files = {}
    /\ features = <<>> /\ metadata = <<>>

\* The completion service is an open environment ("any": each request gets
\* any reply or fails), is down ("outage": each request fails), or follows
\* one of the two end-to-end scenarios, in which no request fails:
\* "undecided" answers the Level-1 request with unparseable text, "tshirt"
\* answers the requests of Levels 1-3 with the three labels and has nothing
\* for Level 4.  Under "silent" the completion service accepts the
\* connection and never responds.
Scripts == {"any", "outage", "undecided", "tshirt", "silent"}

Responses == IF impl \in {"csv", "item"} THEN ScoredResponses ELSE BareResponses

Outcomes == {Failure} \cup {Reply(t) : t \in Responses}

\* run_model and ollama_local post without a timeout: against a silent
\* service the call does not return, so the step that waits for it has no
\* outcome to continue with.  Behind process_item it is the hop to the stage
\* service that ends, when its timeout=60 expires.
OutcomesAt(k) ==
    CASE mock = "silent" -> (IF impl = "item" THEN {Failure} ELSE {})
      [] mock = "outage" -> {Failure}
      [] mock = "any" /\ k \in 1..4 -> Outcomes
      [] mock = "any" /\ k \notin 1..4 -> {Reply(""), Failure}
      [] mock = "undecided" /\ k = 1 -> {Reply("I cannot decide")}
      [] mock = "undecided" /\ k \in 2..4 -> Outcomes \ {Failure}
      [] mock = "tshirt" /\ k = 1 -> {Reply("fashion|confidence:90%")}
      [] mock = "tshirt" /\ k = 2 -> {Reply("casual wear|confidence:85%")}
      [] mock = "tshirt" /\ k = 3 -> {Reply("t-shirt|confidence:92%")}
      [] OTHER -> {Reply("")}

\* the hop from process_item to the service of a stage: the service is
\* reached, or the post fails (connection error, timeout=60 expired)
HopsAt(k) ==
    CASE mock = "silent" -> {FALSE}
      [] mock \in {"any", "outage"} -> BOOLEAN
      [] OTHER -> {TRUE}

\* the one CSV file on disk
InputCsv == "items.csv"

\* data.get('csv_path') of a request: the key is absent, the value is the
\* empty string, it names no file, it names the input file
None == "<None>"
CsvPaths == {None, "", "missing.csv", InputCsv}

Init ==
    /\ impl \in {"csv", "row", "batch", "item", "all"}
    /\ csv_path \in (IF impl = "csv" THEN CsvPaths ELSE {InputCsv})
    /\ mock \in Scripts
    /\ n \in (CASE impl \in {"item", "all"} -> {1}
                [] csv_path # InputCsv -> {0}
                [] OTHER -> 0..MaxRows)
    /\ level = 0
    /\ pc = "start"
    /\ idx = 0
    /\ lab = [k \in 1..4 |-> ""]
    /\ conf = [k \in 1..4 |-> 0]
    /\ calls = [k \in Stages |-> 0]
    /\ passed = [k \in Stages |-> <<>>]
    /\ records = <<>>
    /\ status = 0
    /\ Idle

\* the stage at position k was entered with the taxonomy values args and
\* has issued a completion request or not (the loop body starts over at
\* stage 1: what the locals held for the previous row is dead from there on)
Note(k, args, called) ==
    /\ calls' = [(IF k = 1 THEN [j \in Stages |-> 0] ELSE calls)
                 EXCEPT ![k] = @ + (IF called THEN 1 ELSE 0)]
    /\ passed' = [(IF k = 1 THEN [j \in Stages |-> <<>>] ELSE passed)
                 EXCEPT ![k] = args]

\* label (and confidence) variable k is assigned
Assign(k, label, confidence) ==
    /\ lab' = [(IF k = 1 THEN [j \in 1..4 |-> ""] ELSE lab) EXCEPT ![k] = label]
    /\ conf' = [(IF k = 1 THEN [j \in 1..4 |-> 0] ELSE conf) EXCEPT ![k] = confidence]

\* the row is complete: its record joins the table; the loop goes on to the
\* next row, or ends and the table is written out with status 200
EndRow(rec) ==
    /\ records' = Append(records, rec)
    /\ IF idx = n
       THEN pc' = "done" /\ status' = 200 /\ idx' = idx
       ELSE pc' = "L1" /\ status' = status /\ idx' = idx + 1

\* the table the client receives: nothing is written unless the handler
\* reached its end
Produced == IF status = 200 THEN records ELSE <<>>

(***************************************************************************)
(* process_csv_pipeline                                                    *)
(***************************************************************************)

\* The default of data.get('output_path', csv_path.replace(...)) is evaluated
\* before the csv_path test: on None it raises AttributeError.  df.iloc[0]
\* raises IndexError on a table without rows.  Any exception ends the handler
\* with status 500 and nothing written.
CsvBegin ==
    /\ impl = "csv" /\ pc = "start"
    /\ CASE csv_path = None     -> pc' = "done" /\ status' = 500 /\ idx' = idx
         [] csv_path = ""       -> pc' = "done" /\ status' = 400 /\ idx' = idx
         [] csv_path # InputCsv -> pc' = "done" /\ status' = 404 /\ idx' = idx
         [] n = 0               -> pc' = "done" /\ status' = 500 /\ idx' = idx
         [] OTHER               -> pc' = "L1" /\ idx' = 1 /\ status' = status
    /\ UNCHANGED <<skwVars, imageVars, impl, csv_path, mock, n, level, lab, conf, calls, passed, records>>

CsvClassified(k, r, next) ==
    IF r.raised
    THEN /\ pc' = "done" /\ status' = 500
         /\ UNCHANGED <<skwVars, imageVars, impl, csv_path, mock, n, level, idx, lab, conf, records>>
    ELSE /\ Assign(k, r.label, r.confidence)
         /\ pc' = next
         /\ UNCHANGED <<skwVars, imageVars, impl, csv_path, mock, n, level, idx, records, status>>

CsvL1 ==
    /\ impl = "csv" /\ pc = "L1"
    /\ \E out \in OutcomesAt(1) :
          LET r == classify_shopping_category(out)
          IN  Note(1, <<>>, r.called) /\ CsvClassified(1, r, "L2")

CsvL2 ==
    /\ impl = "csv" /\ pc = "L2"
    /\ \E out \in OutcomesAt(2) :
          LET r == classify_shopping_subcategory(lab[1], out)
          IN  Note(2, <<lab[1]>>, r.called) /\ CsvClassified(2, r, "L3")

CsvL3 ==
    /\ impl = "csv" /\ pc = "L3"
    /\ \E out \in OutcomesAt(3) :
          LET r == classify_item_category(lab[1], lab[2], out)
          IN  Note(3, <<lab[1], lab[2]>>, r.called) /\ CsvClassified(3, r, "L4")

CsvL4 ==
    /\ impl = "csv" /\ pc = "L4"
    /\ \E out \in OutcomesAt(4) :
          LET r == classify_item_subcategory(lab[1], lab[2], lab[3], out)
          IN  Note(4, <<lab[1], lab[2], lab[3]>>, r.called)
              /\ CsvClassified(4, r, "SKW")

\* a variant of CsvSKW that hands generate_skw the vendor category, as
\* process_row of src/app.py does, instead of the Level-3 label
CsvSKWFromVendor ==
    /\ impl = "csv" /\ pc = "SKW"
    /\ \E out \in OutcomesAt(SKW) :
          /\ Note(SKW, <<>>, TRUE)
          /\ IF out.ok THEN pc' = "DSW" /\ status' = status
                       ELSE pc' = "done" /\ status' = 500
    /\ UNCHANGED <<skwVars, imageVars, impl, csv_path, mock, n, level, idx, lab, conf, records>>

\* generate_skw(item_name, item_cat): a completion request, its failure raised
CsvSKW ==
    /\ impl = "csv" /\ pc = "SKW"
    /\ \E out \in OutcomesAt(SKW) :
          /\ Note(SKW, <<lab[3]>>, TRUE)
          /\ IF out.ok THEN pc' = "DSW" /\ status' = status
                       ELSE pc' = "done" /\ status' = 500
    /\ UNCHANGED <<skwVars, imageVars, impl, csv_path, mock, n, level, idx, lab, conf, records>>

\* generate_dsw(item_name, description, item_cat)
CsvDSW ==
    /\ impl = "csv" /\ pc = "DSW"
    /\ \E out \in OutcomesAt(DSW) :
          /\ Note(DSW, <<lab[3]>>, TRUE)
          /\ IF out.ok THEN pc' = "ATTR" /\ status' = status
                       ELSE pc' = "done" /\ status' = 500
    /\ UNCHANGED <<skwVars, imageVars, impl, csv_path, mock, n, level, idx, lab, conf, records>>

\* extract_ai_attributes(..., shopping_cat, shopping_subcat, item_cat); the
\* row is complete after it
CsvATTR ==
    /\ impl = "csv" /\ pc = "ATTR"
    /\ \E out \in OutcomesAt(ATTR) :
          /\ Note(ATTR, <<lab[1], lab[2], lab[3]>>, TRUE)
          /\ IF out.ok
             THEN EndRow([labels |-> <<lab[1], lab[2], lab[3], lab[4]>>,
                          confs |-> <<conf[1], conf[2], conf[3], conf[4]>>])
             ELSE pc' = "done" /\ status' = 500 /\ UNCHANGED <<idx, records>>
    /\ UNCHANGED <<skwVars, imageVars, impl, csv_path, mock, n, level, lab, conf>>

(***************************************************************************)
(* src/app.py: process_csv runs process_row on every row.  process_row     *)
(* overwrites an empty label by the sentinel before it goes on, so the     *)
(* label variable that reaches the next stage holds the sentinel.  The     *)
(* completion clients catch every exception.                               *)
(***************************************************************************)

RowBegin ==
    /\ impl = "row" /\ pc = "start"
    /\ IF n = 0
       THEN pc' = "done" /\ status' = 200 /\ idx' = idx
       ELSE pc' = "L1" /\ idx' = 1 /\ status' = status
    /\ UNCHANGED <<skwVars, imageVars, impl, csv_path, mock, n, level, lab, conf, calls, passed, records>>

\* if not <label>: <label> = "template"
OrSentinel(label) == IF label = "" THEN Sentinel ELSE label

RowL1 ==
    /\ impl = "row" /\ pc = "L1"
    /\ \E out \in OutcomesAt(1) :
          LET r == app_classify_shopping_category(out)
          IN  Note(1, <<>>, r.called) /\ Assign(1, OrSentinel(r.label), 0)
    /\ pc' = "L2"
    /\ UNCHANGED <<skwVars, imageVars, impl, csv_path, mock, n, level, idx, records, status>>

RowL2 ==
    /\ impl = "row" /\ pc = "L2"
    /\ \E out \in OutcomesAt(2) :
          LET r == app_classify_shopping_subcategory(lab[1], out)
          IN  Note(2, <<lab[1]>>, r.called) /\ Assign(2, OrSentinel(r.label), 0)
    /\ pc' = "L3"
    /\ UNCHANGED <<skwVars, imageVars, impl, csv_path, mock, n, level, idx, records, status>>

RowL3 ==
    /\ impl = "row" /\ pc = "L3"
    /\ \E out \in OutcomesAt(3) :
          LET r == app_classify_item_category(lab[1], lab[2], out)
          IN  Note(3, <<lab[1], lab[2]>>, r.called) /\ Assign(3, OrSentinel(r.label), 0)
    /\ pc' = "SKW"
    /\ UNCHANGED <<skwVars, imageVars, impl, csv_path, mock, n, level, idx, records, status>>

\* generate_skw(item_name, vendor_category): no taxonomy value goes in
RowSKW ==
    /\ impl = "row" /\ pc = "SKW"
    /\ Note(SKW, <<>>, TRUE)
    /\ pc' = "DSW"
    /\ UNCHANGED <<skwVars, imageVars, impl, csv_path, mock, n, level, idx, lab, conf, records, status>>

\* generate_dsw(item_name, vendor_category)
RowDSW ==
    /\ impl = "row" /\ pc = "DSW"
    /\ Note(DSW, <<>>, TRUE)
    /\ pc' = "ATTR"
    /\ UNCHANGED <<skwVars, imageVars, impl, csv_path, mock, n, level, idx, lab, conf, records, status>>

\* generate_ai_attributes(item_name, vendor_category, item_category), then
\* the dict of the row is returned and appended to results
RowATTR ==
    /\ impl = "row" /\ pc = "ATTR"
    /\ Note(ATTR, <<lab[3]>>, TRUE)
    /\ EndRow([labels |-> <<lab[1], lab[2], lab[3]>>])
    /\ UNCHANGED <<skwVars, imageVars, impl, csv_path, mock, n, level, lab, conf>>

(***************************************************************************)
(* src/attributes_extraction_using_llms/app.py: classify_batch.  The       *)
(* taxonomy, the classifiers and the catch-all completion clients are      *)
(* those of src/app.py; the loop substitutes the sentinel like process_row *)
(* and has an error record for an item without a name.  Level 4 is the     *)
(* sentinel for every item.                                                *)
(***************************************************************************)

\* if not items: 400 "items array is required"
BatchBegin ==
    /\ impl = "batch" /\ pc = "start"
    /\ IF n = 0
       THEN pc' = "done" /\ status' = 400 /\ idx' = idx
       ELSE pc' = "L1" /\ idx' = 1 /\ status' = status
    /\ UNCHANGED <<skwVars, imageVars, impl, csv_path, mock, n, level, lab, conf, calls, passed, records>>

\* the record appended for an item whose item_name is empty
ErrorRecord ==
    [labels |-> <<Sentinel, Sentinel, Sentinel, Sentinel>>, error |-> TRUE]

\* an item without a name gets its error record and the loop continues;
\* otherwise Level 1
BatchL1 ==
    /\ impl = "batch" /\ pc = "L1"
    /\ \E named \in BOOLEAN :
          IF named
          THEN /\ \E out \in OutcomesAt(1) :
                     LET r == app_classify_shopping_category(out)
                     IN  Note(1, <<>>, r.called) /\ Assign(1, OrSentinel(r.label), 0)
               /\ pc' = "L2"
               /\ UNCHANGED <<idx, records, status>>
          ELSE /\ Note(1, <<>>, FALSE) /\ Assign(1, "", 0)
               /\ EndRow(ErrorRecord)
    /\ UNCHANGED <<skwVars, imageVars, impl, csv_path, mock, n, level>>

BatchL2 ==
    /\ impl = "batch" /\ pc = "L2"
    /\ \E out \in OutcomesAt(2) :
          LET r == app_classify_shopping_subcategory(lab[1], out)
          IN  Note(2, <<lab[1]>>, r.called) /\ Assign(2, OrSentinel(r.label), 0)
    /\ pc' = "L3"
    /\ UNCHANGED <<skwVars, imageVars, impl, csv_path, mock, n, level, idx, records, status>>

\* Level 3, item_subcategory = "template", results.append(result)
BatchL3 ==
    /\ impl = "batch" /\ pc = "L3"
    /\ \E out \in OutcomesAt(3) :
          LET r == app_classify_item_category(lab[1], lab[2], out)
          IN  /\ Note(3, <<lab[1], lab[2]>>, r.called)
              /\ Assign(3, OrSentinel(r.label), 0)
              /\ EndRow([labels |-> <<lab[1], lab[2], OrSentinel(r.label), Sentinel>>])
    /\ UNCHANGED <<skwVars, imageVars, impl, csv_path, mock, n, level>>

(***************************************************************************)
(* The JSON services behind process_item.  Each `classify` / `generate` /  *)
(* `extract` / `translate` handler rejects a request whose required field  *)
(* is empty with status 400 and turns any exception into status 500.       *)
(***************************************************************************)

HttpReply(st, r) ==
    [status |-> st, label |-> r.label, confidence |-> r.confidence, called |-> r.called]

Served(r) == IF r.raised THEN HttpReply(500, r) ELSE HttpReply(200, r)

\* json_api_1_shopping_category.py classify (item_name is not empty here)
level_1_service(out) == Served(classify_shopping_category(out))

\* json_api_2_shopping_subcategory.py classify
level_2_service(shopping_category, out) ==
    IF shopping_category = "" THEN HttpReply(400, ShortCircuit)
    ELSE Served(classify_shopping_subcategory(shopping_category, out))

\* json_api_3_item_category.py classify
level_3_service(shopping_category, shopping_subcategory, out) ==
    IF shopping_category = "" \/ shopping_subcategory = ""
    THEN HttpReply(400, ShortCircuit)
    ELSE Served(classify_item_category(shopping_category, shopping_subcategory, out))

\* json_api_4_item_subcategory.py classify
level_4_service(shopping_category, shopping_subcategory, item_category, out) ==
    IF shopping_category = "" \/ shopping_subcategory = "" \/ item_category = ""
    THEN HttpReply(400, ShortCircuit)
    ELSE Served(classify_item_subcategory(shopping_category, shopping_subcategory,
                                          item_category, out))

\* json_api_5_skw_generation.py and json_api_6_dsw_generation.py generate
keyword_service(item_category, out) ==
    IF item_category = "" THEN HttpReply(400, ShortCircuit)
    ELSE IF ~out.ok THEN HttpReply(500, Raised)
    ELSE HttpReply(200, Returned("", 0))

\* json_api_7_ai_attributes.py extract: outside the three allowed
\* categories the item is skipped with status 200 and no request
level_7_service(shopping_category, out) ==
    IF Strip(Lower(shopping_category)) \notin {"fashion", "beauty", "home and garden"}
    THEN HttpReply(200, ShortCircuit)
    ELSE IF ~out.ok THEN HttpReply(500, Raised)
    ELSE HttpReply(200, Returned("", 0))

\* json_api_8_arabic_translation.py translate: translate_to_arabic catches
\* the failure of its request and returns ""
level_8_service(out) == HttpReply(200, Returned("", 0))

(***************************************************************************)
(* process_item: call_level_k posts to the service with timeout=60 and     *)
(* raise_for_status(); a service that cannot be reached, or answers 4xx or *)
(* 5xx, raises, and the handler answers 500 "Item processing failed".      *)
(***************************************************************************)

ItemBegin ==
    /\ impl = "item" /\ pc = "start"
    /\ pc' = "L1" /\ idx' = 1
    /\ UNCHANGED <<skwVars, imageVars, impl, csv_path, mock, n, level, lab, conf, calls, passed, records, status>>

\* reached = FALSE: connection error or timeout of the hop to the service
ItemStage(k, args, reached, h, next) ==
    /\ Note(k, args, reached /\ h.called)
    /\ IF reached /\ h.status = 200
       THEN /\ IF k <= 4 THEN Assign(k, h.label, h.confidence)
                         ELSE UNCHANGED <<lab, conf>>
            /\ pc' = next
            /\ UNCHANGED <<skwVars, imageVars, impl, csv_path, mock, n, level, idx, records, status>>
       ELSE /\ pc' = "done" /\ status' = 500
            /\ UNCHANGED <<skwVars, imageVars, impl, csv_path, mock, n, level, idx, lab, conf, records>>

ItemL1 ==
    /\ impl = "item" /\ pc = "L1"
    /\ \E out \in OutcomesAt(1), reached \in HopsAt(1) :
          ItemStage(1, <<>>, reached, level_1_service(out), "L2")

ItemL2 ==
    /\ impl = "item" /\ pc = "L2"
    /\ \E out \in OutcomesAt(2), reached \in HopsAt(2) :
          ItemStage(2, <<lab[1]>>, reached, level_2_service(lab[1], out), "L3")

ItemL3 ==
    /\ impl = "item" /\ pc = "L3"
    /\ \E out \in OutcomesAt(3), reached \in HopsAt(3) :
          ItemStage(3, <<lab[1], lab[2]>>, reached,
                    level_3_service(lab[1], lab[2], out), "L4")

ItemL4 ==
    /\ impl = "item" /\ pc = "L4"
    /\ \E out \in OutcomesAt(4), reached \in HopsAt(4) :
          ItemStage(4, <<lab[1], lab[2], lab[3]>>, reached,
                    level_4_service(lab[1], lab[2], lab[3], out), "SKW")

ItemSKW ==
    /\ impl = "item" /\ pc = "SKW"
    /\ \E out \in OutcomesAt(SKW), reached \in HopsAt(SKW) :
          ItemStage(SKW, <<lab[3]>>, reached, keyword_service(lab[3], out), "DSW")

ItemDSW ==
    /\ impl = "item" /\ pc = "DSW"
    /\ \E out \in OutcomesAt(DSW), reached \in HopsAt(DSW) :
          ItemStage(DSW, <<lab[3]>>, reached, keyword_service(lab[3], out), "ATTR")

ItemATTR ==
    /\ impl = "item" /\ pc = "ATTR"
    /\ \E out \in OutcomesAt(ATTR), reached \in HopsAt(ATTR) :
          ItemStage(ATTR, <<lab[1], lab[2], lab[3]>>, reached,
                    level_7_service(lab[1], out), "TR")

\* call_level_8(item_name), then enriched_item is built and returned
ItemTR ==
    /\ impl = "item" /\ pc = "TR"
    /\ \E out \in OutcomesAt(TR), reached \in HopsAt(TR) :
          /\ Note(TR, <<>>, reached)
          /\ IF reached
             THEN EndRow([labels |-> <<lab[1], lab[2], lab[3], lab[4]>>,
                          confs |-> <<conf[1], conf[2], conf[3], conf[4]>>])
             ELSE pc' = "done" /\ status' = 500 /\ UNCHANGED <<idx, records>>
    /\ UNCHANGED <<skwVars, imageVars, impl, csv_path, mock, n, level, lab, conf>>

(***************************************************************************)
(* classify_all: the four classifiers in sequence, with a return of the    *)
(* labels found so far at the first empty one; an exception answers 500.   *)
(***************************************************************************)

AllBegin ==
    /\ impl = "all" /\ pc = "start"
    /\ pc' = "L1" /\ idx' = 1
    /\ UNCHANGED <<skwVars, imageVars, impl, csv_path, mock, n, level, lab, conf, calls, passed, records, status>>

AllStage(k, args, r, next) ==
    /\ Note(k, args, r.called)
    /\ IF r.raised
       THEN /\ pc' = "done" /\ status' = 500
            /\ UNCHANGED <<skwVars, imageVars, impl, csv_path, mock, n, level, idx, lab, conf, records>>
       ELSE /\ Assign(k, r.label, 0)
            /\ IF r.label = "" \/ k = 4
               THEN EndRow([labels |-> [j \in 1..4 |-> IF j < k THEN lab[j]
                                                     ELSE IF j = k THEN r.label
                                                     ELSE ""]])
               ELSE pc' = next /\ UNCHANGED <<idx, records, status>>
            /\ UNCHANGED <<skwVars, imageVars, impl, csv_path, mock, n, level>>

AllL1 ==
    /\ impl = "all" /\ pc = "L1"
    /\ \E out \in OutcomesAt(1) :
          AllStage(1, <<>>, cat_classify_shopping_category(out), "L2")

AllL2 ==
    /\ impl = "all" /\ pc = "L2"
    /\ \E out \in OutcomesAt(2) :
          AllStage(2, <<lab[1]>>, cat_classify_shopping_subcategory(lab[1], out), "L3")

AllL3 ==
    /\ impl = "all" /\ pc = "L3"
    /\ \E out \in OutcomesAt(3) :
          AllStage(3, <<lab[1], lab[2]>>,
                   cat_classify_item_category(lab[1], lab[2], out), "L4")

AllL4 ==
    /\ impl = "all" /\ pc = "L4"
    /\ \E out \in OutcomesAt(4) :
          AllStage(4, <<lab[1], lab[2], lab[3]>>,
                   cat_classify_item_subcategory(lab[1], lab[2], lab[3], out), "done")

(***************************************************************************)
(* One classifier called on its own: the level, the ancestors handed in    *)
(* and the outcome of the completion request are the inputs, drawn in      *)
(* InitClassify; the call assigns the label and confidence of that level.  *)
(*   "flask"  the classifiers of api_master_pipeline.py / json_api_1..4    *)
(*   "app"    the classifiers of src/app.py                                *)
(*   "cat"    the classifiers of json_api_1_category.py                    *)
(***************************************************************************)

ClassifyLabels ==
    {"fashion", "Fashion", "pharmacies", "casual wear", "men's care",
     "t-shirt", "tank top", "gadgets"}

ClassifyTails ==
    {"", "|confidence:90%", "|confidence:0%", "|confidence:150%",
     "|confidence:1000%", "|confidence:-5%", "|confidence: high",
     "|Confidence: 85 %", "|confidence:85%\nExplanation: it fits",
     "\nis my answer"}

ClassifyTexts ==
    {l \o t : l \in ClassifyLabels, t \in ClassifyTails}
    \cup {"", "I cannot decide", "\"fashion\"|confidence:\"90%\"",
          "Sure!\ncasual wear|confidence:85%", "|confidence:0%"}

ClassifyOutcomes == {Failure} \cup {Reply(t) : t \in ClassifyTexts}

\* the ancestors handed to a level-k classifier: valid paths, paths with an
\* empty or a sentinel ancestor, and paths that are not in the store
ParentPaths(k) ==
    CASE k = 1 -> {<<"", "", "", "">>}
      [] k = 2 -> {<<c, "", "", "">> :
                       c \in {"fashion", "pharmacies", "gifts and flowers", "", Sentinel}}
      [] k = 3 -> {<<"fashion", "casual wear", "", "">>, <<"fashion", "", "", "">>,
                   <<"fashion", "home decor", "", "">>, <<Sentinel, Sentinel, "", "">>}
      [] k = 4 -> {<<"fashion", "casual wear", "top", "">>,
                   <<"fashion", "casual wear", "", "">>,
                   <<"fashion", "gadgets", "top", "">>,
                   <<"fashion", "casual wear", "shirt", "">>}

\* here impl is the classifier family and mock the outcome of the one
\* completion request the call may issue
InitClassify ==
    /\ impl \in {"flask", "app", "cat"}
    /\ csv_path = ""
    /\ level \in (IF impl = "app" THEN 1..3 ELSE 1..4)
    /\ mock \in ClassifyOutcomes
    /\ lab \in ParentPaths(level)
    /\ n = 1
    /\ pc = "call"
    /\ idx = 1
    /\ conf = [k \in 1..4 |-> 0]
    /\ calls = [k \in Stages |-> 0]
    /\ passed = [k \in Stages |-> <<>>]
    /\ records = <<>>
    /\ status = 0
    /\ Idle

\* the allowed set the level-k classifier of the family validates against,
\* for the ancestors p; empty when the path is not in the store
AllowedSet(family, k, p) ==
    CASE k = 1 -> IF family = "app" THEN shopping_categories ELSE shoppingCategory
      [] k = 2 ->
           LET m == IF family = "app" THEN subcategory_map ELSE shoppingSubcategory_map
           IN  IF p[1] \in DOMAIN m THEN m[p[1]] ELSE {}
      [] k = 3 ->
           LET m == IF family = "app" THEN category_item_map ELSE itemCategory_map
           IN  IF p[1] \in DOMAIN m /\ p[2] \in DOMAIN m[p[1]] THEN m[p[1]][p[2]] ELSE {}
      [] k = 4 ->
           IF /\ p[1] \in DOMAIN itemSubcategory_map
              /\ p[3] \in DOMAIN itemSubcategory_map[p[1]]
           THEN itemSubcategory_map[p[1]][p[3]] ELSE {}

Called(r) ==
    /\ Note(level, SubSeq(lab, 1, level - 1), r.called)
    /\ IF r.raised
       THEN pc' = "raised" /\ UNCHANGED <<lab, conf>>
       ELSE /\ pc' = "returned"
            /\ lab' = [lab EXCEPT ![level] = r.label]
            /\ conf' = [conf EXCEPT ![level] = r.confidence]
    /\ UNCHANGED <<skwVars, imageVars, impl, csv_path, mock, n, level, idx, records, status>>

FlaskClassify ==
    /\ impl = "flask" /\ pc = "call"
    /\ Called(CASE level = 1 -> classify_shopping_category(mock)
                [] level = 2 -> classify_shopping_subcategory(lab[1], mock)
                [] level = 3 -> classify_item_category(lab[1], lab[2], mock)
                [] level = 4 -> classify_item_subcategory(lab[1], lab[2], lab[3], mock))

WithConfidence(r) ==
    [label |-> r.label, confidence |-> 0, called |-> r.called, raised |-> r.raised]

AppClassify ==
    /\ impl = "app" /\ pc = "call"
    /\ Called(WithConfidence(
          CASE level = 1 -> app_classify_shopping_category(mock)
            [] level = 2 -> app_classify_shopping_subcategory(lab[1], mock)
            [] level = 3 -> app_classify_item_category(lab[1], lab[2], mock)))

CatClassify ==
    /\ impl = "cat" /\ pc = "call"
    /\ Called(WithConfidence(
          CASE level = 1 -> cat_classify_shopping_category(mock)
            [] level = 2 -> cat_classify_shopping_subcategory(lab[1], mock)
            [] level = 3 -> cat_classify_item_category(lab[1], lab[2], mock)
            [] level = 4 -> cat_classify_item_subcategory(lab[1], lab[2], lab[3], mock)))

NextClassify == FlaskClassify \/ AppClassify \/ CatClassify

SpecClassify == InitClassify /\ [][NextClassify]_vars

(***************************************************************************)
(* generate_skw of flask_apis/api_master_pipeline.py (the same function,   *)
(* line for line, in json_apis/json_api_5_skw_generation.py), called on    *)
(* its own: the item name and the outcome of its completion request are    *)
(* drawn in InitSKW.                                                       *)
(***************************************************************************)

\* s.replace(c, d) for one-character strings c and d
RECURSIVE ReplaceCh(_, _, _)
ReplaceCh(s, c, d) ==
    IF s = "" THEN ""
    ELSE (IF Ch(s, 1) = c THEN d ELSE Ch(s, 1)) \o ReplaceCh(From(s, 2), c, d)

\* s.split(sep): the pieces between the occurrences of sep
RECURSIVE Split(_, _)
Split(s, sep) ==
    IF ~Contains(s, sep) THEN <<s>>
    ELSE <<Upto(s, Find(s, sep) - 1)>> \o Split(From(s, Find(s, sep) + Len(sep)), sep)

\* last position of the token of s that starts at position i
RECURSIVE TokenEnd(_, _)
TokenEnd(s, i) ==
    IF i + 1 > Len(s) \/ IsSpace(Ch(s, i + 1)) THEN i ELSE TokenEnd(s, i + 1)

\* s.split(): the whitespace-delimited tokens
RECURSIVE Tokens(_)
Tokens(s) ==
    LET t == LStrip(s)
    IN  IF t = "" THEN <<>>
        ELSE <<Upto(t, TokenEnd(t, 1))>> \o Tokens(From(t, TokenEnd(t, 1) + 1))

\* s.title(): a letter that follows a letter is lower-cased, any other
\* letter is upper-cased
RECURSIVE TitleFrom(_, _)
TitleFrom(s, prevCased) ==
    IF s = "" THEN ""
    ELSE LET c == Ch(s, 1)
             cased == IsLower(c) \/ IsUpper(c)
         IN  (IF ~cased THEN c ELSE IF prevCased THEN LowerCh(c) ELSE UpperCh(c))
             \o TitleFrom(From(s, 2), cased)

Title(s) == TitleFrom(s, FALSE)

\* sep.join(seq)
RECURSIVE Join(_, _)
Join(seq, sep) ==
    IF seq = <<>> THEN ""
    ELSE IF Len(seq) = 1 THEN seq[1]
    ELSE seq[1] \o sep \o Join(Tail(seq), sep)

\* [k.strip() for k in result.split(",") if k.strip()]
Candidates(result) ==
    LET parts == Split(result, ",")
    IN  SelectSeq([i \in 1..Len(parts) |-> Strip(parts[i])], LAMBDA k : k # "")

\* item_name.lower().replace("-", " ").split()
NameTokens(name) == Tokens(ReplaceCh(Lower(name), "-", " "))

\* ...split()[-1] of a name that has a token
product_noun(name) == NameTokens(name)[Len(NameTokens(name))]

\* the noun goes first only when the model returned nothing usable
NounFirstIfEmpty(keywords, noun) ==
    IF keywords = <<>> THEN <<noun>> ELSE keywords

\* "# Always ensure noun is first"
NounFirst(keywords, noun) ==
    IF keywords = <<>> \/ keywords[1] # noun
    THEN <<noun>> \o SelectSeq(keywords, LAMBDA kw : kw # noun)
    ELSE keywords

\* the length at which the loop over the keywords breaks
SkwLimit == 5

\* a loop that only cuts the list at the limit
RECURSIVE FirstOnes(_, _)
FirstOnes(keywords, final) ==
    IF keywords = <<>> \/ Len(final) = SkwLimit THEN final
    ELSE FirstOnes(Tail(keywords), Append(final, Head(keywords)))

\* "# Remove duplicates while preserving order, limit to 5"
RECURSIVE FirstDistinct(_, _)
FirstDistinct(keywords, final) ==
    IF keywords = <<>> \/ Len(final) = SkwLimit THEN final
    ELSE IF \E i \in 1..Len(final) : final[i] = Head(keywords)
    THEN FirstDistinct(Tail(keywords), final)
    ELSE FirstDistinct(Tail(keywords), Append(final, Head(keywords)))

SkwReturned(text) == [raised |-> FALSE, text |-> text]
SkwRaised == [raised |-> TRUE, text |-> ""]

generate_skw(name, out) ==
    IF ~out.ok THEN SkwRaised
    ELSE IF NameTokens(name) = <<>> THEN SkwRaised    \* split()[-1]: IndexError
    ELSE LET result == Lower(Strip(Remove(Remove(Remove(run_model(out),
                                   "\n"), "\""), "'")))
             noun == product_noun(name)
             keywords == SelectSeq(Candidates(result), LAMBDA kw : Contains(kw, noun))
             final_keywords == FirstDistinct(NounFirst(keywords, noun), <<>>)
         IN  SkwReturned(Join([i \in 1..Len(final_keywords) |-> Title(final_keywords[i])],
                              ", "))

\* item names: several words, a hyphenated last word, upper case, trailing
\* whitespace, an apostrophe, and names without any token
SkwNames ==
    {"Cotton T-Shirt", "Red Tote Bag", "SHIRT", "Summer Dress ",
     "Women's Tank-Top", "3XL Shirt", " - ", "-", " ", ""}

\* responses: the noun first, the noun later, the noun missing, repeated
\* phrases, more than five phrases, quotes and line breaks, empty pieces,
\* phrases that contain the noun inside a word, no list at all
SkwTexts ==
    {"Shirt, Cotton Shirt, Blue Shirt",
     "Cotton Shirt, Shirt",
     "shirt, shirt, SHIRT, Red Shirt, red shirt",
     "Bag,Tote Bag,Red Bag,Big Bag,Bag Set,Sea Bag",
     "Tote Bag,Red Bag,Tote Bag,Big Bag,Bag,Sea Bag",
     "\"Top\", 'Tank Top',\nCrop Top",
     "Dress, Summer Dress, Dress",
     ", ,Top,,",
     "Shirts, T-Shirt, Tshirt, Shirt Dress",
     "Pants, Trousers",
     "I cannot help with that.",
     ""}

SkwOutcomes == {Failure} \cup {Reply(t) : t \in SkwTexts}

InitSKW ==
    /\ impl = "skw"
    /\ csv_path = ""
    /\ mock \in SkwOutcomes
    /\ item_name \in SkwNames
    /\ skw = ""
    /\ pc = "call"
    /\ n = 1 /\ level = 0 /\ idx = 1
    /\ lab = [k \in 1..4 |-> ""]
    /\ conf = [k \in 1..4 |-> 0]
    /\ calls = [k \in Stages |-> 0]
    /\ passed = [k \in Stages |-> <<>>]
    /\ records = <<>>
    /\ status = 0
    /\ images = <<>> /\ processed = <<>> /\ results = <<>>
    /\ submitted = <<>> /\ files = {}
    /\ features = <<>> /\ metadata = <<>>

GenerateSKW ==
    /\ impl = "skw" /\ pc = "call"
    /\ LET r == generate_skw(item_name, mock)
       IN  /\ pc' = IF r.raised THEN "raised" ELSE "returned"
           /\ skw' = r.text
    /\ calls' = [calls EXCEPT ![SKW] = 1]
    /\ UNCHANGED <<imageVars, impl, csv_path, mock, n, level, idx, lab, conf, passed, records,
                   status, item_name>>

NextSKW == GenerateSKW

SpecSKW == InitSKW /\ [][NextSKW]_vars

(***************************************************************************)
(* Image attribute aggregation                                             *)
(*   src/image-feature-extraction/json_api_9_image_features.py   ("api9")  *)
(*   src/image-feature-extraction/extract_image_features.py      ("script")*)
(* A prediction is a dict attribute -> value; the vision model returns it  *)
(* with a confidence.  Confidences are kept in hundredths, and a quotient  *)
(* is kept as the pair (num, den) it is computed from.                     *)
(***************************************************************************)

MaxImages == 3

Attributes == {"color", "material"}

SentinelValues == {"no", "n/a", "none", "unknown"}

\* data['value'].lower() not in ['no', 'n/a', 'none', 'unknown']
Survives(data) == Lower(data.value) \notin SentinelValues

NoPrediction == [a \in {} |-> ""]

FirstPass ==
    {NoPrediction,
     [color |-> "green"],
     [color |-> "blue"],
     [color |-> "N/A"],
     [color |-> "green", material |-> "straw"],
     [color |-> "Unknown", material |-> "straw"]}

SecondPass == {NoPrediction, [color |-> "green"], [color |-> "unknown"]}

\* what one URL of the request leads to: the download or the decoding fails,
\* the temporary file is created but the JPEG cannot be written, or the
\* image is stored and the model predicts `first` for it
ImageOptions(kind) ==
    {[fetch |-> "ok", first |-> p] : p \in FirstPass}
        \cup (IF kind = "api9"
              THEN {[fetch |-> f, first |-> NoPrediction] : f \in {"unreachable", "unsavable"}}
              ELSE {})

ImageLists(kind) ==
    UNION {[1..k -> ImageOptions(kind)] : k \in 0..MaxImages}

\* the confidence the model attaches to the k-th image of a request
ConfidenceAt(k) == 100 - 10 * k

\* one result of model.generate(..., return_confidences=True)
Predicted(p, k) == [a \in DOMAIN p |-> [value |-> p[a], confidence |-> ConfidenceAt(k)]]

Range(s) == {s[i] : i \in 1..Len(s)}

has_valid_results(res) ==
    \E i \in 1..Len(res) : \E a \in DOMAIN res[i] : Survives(res[i][a])

cleaned_features(d) == [a \in {b \in DOMAIN d : Survives(d[b])} |-> d[a]]

\* the (value, confidence) pairs collected for attr, in image order
Votes(res, attr, filtering) ==
    LET having == SelectSeq(res, LAMBDA d : /\ attr \in DOMAIN d
                                            /\ filtering => Survives(d[attr]))
    IN  [i \in 1..Len(having) |-> having[i][attr]]

Count(votes, v) == Cardinality({i \in 1..Len(votes) : votes[i].value = v})

\* a variant of most_common that keeps the last of the most frequent values
most_common_last(votes) ==
    LET i == CHOOSE i \in 1..Len(votes) :
                 /\ \A j \in 1..Len(votes) :
                        Count(votes, votes[j].value) <= Count(votes, votes[i].value)
                 /\ \A j \in (i + 1)..Len(votes) :
                        Count(votes, votes[j].value) < Count(votes, votes[i].value)
    IN  votes[i].value

\* Counter(values).most_common(1)[0][0]: the first maximum in insertion order
most_common(votes) ==
    LET i == CHOOSE i \in 1..Len(votes) :
                 /\ \A j \in 1..Len(votes) :
                        Count(votes, votes[j].value) <= Count(votes, votes[i].value)
                 /\ \A j \in 1..(i - 1) :
                        Count(votes, votes[j].value) < Count(votes, votes[i].value)
    IN  votes[i].value

RECURSIVE SumConfidence(_, _)
SumConfidence(votes, v) ==
    IF votes = <<>> THEN 0
    ELSE (IF votes[1].value = v THEN votes[1].confidence ELSE 0)
             + SumConfidence(Tail(votes), v)

\* a variant of avg_confidence that divides by the number of all votes
avg_confidence_of_all(votes, v) ==
    [num |-> SumConfidence(votes, v), den |-> Len(votes)]

\* sum(conf for val, conf in zip(values, confidences) if val == v) / count
avg_confidence(votes, v) ==
    [num |-> SumConfidence(votes, v), den |-> Count(votes, v)]

\* the voting loop of extract_features_with_voting
final_features(res) ==
    [a \in {b \in Attributes : Votes(res, b, TRUE) # <<>>} |->
        LET votes == Votes(res, a, TRUE)
            v == most_common(votes)
        IN  [value |-> v, confidence |-> avg_confidence(votes, v)]]

voting_details(res) ==
    [a \in {b \in Attributes : Votes(res, b, TRUE) # <<>>} |->
        LET votes == Votes(res, a, TRUE)
            v == most_common(votes)
        IN  [votes |-> Count(votes, v),
             total_images |-> Len(votes),
             vote_percentage |-> [num |-> Count(votes, v) * 100, den |-> Len(votes)],
             all_values |-> [i \in 1..Len(votes) |-> votes[i].value]]]

\* the voting loop of extract_features: every value is a vote
script_final_features(res) ==
    [a \in {b \in Attributes : Votes(res, b, FALSE) # <<>>} |->
        LET votes == Votes(res, a, FALSE)
            v == most_common(votes)
        IN  [value |-> v, confidence |-> avg_confidence(votes, v),
             votes |-> Count(votes, v), total_images |-> Len(votes)]]

script_voting_details(res) ==
    [a \in {b \in Attributes : Votes(res, b, FALSE) # <<>>} |->
        LET votes == Votes(res, a, FALSE)
            v == most_common(votes)
        IN  [all_values |-> [i \in 1..Len(votes) |-> votes[i].value],
             all_confidences |-> [i \in 1..Len(votes) |-> votes[i].confidence],
             value_counts |-> [w \in {votes[i].value : i \in 1..Len(votes)} |->
                                  Count(votes, w)],
             selected_value |-> v,
             vote_percentage |-> [num |-> Count(votes, v) * 100, den |-> Len(votes)]]]

InitImage ==
    /\ impl \in {"api9", "script"}
    /\ csv_path = ""
    /\ images \in ImageLists(impl)
    /\ processed = <<>> /\ results = <<>>
    /\ submitted = [i \in 1..Len(images) |-> 0]
    /\ files = {}
    /\ features = NoPrediction /\ metadata = NoPrediction
    /\ pc = "start"
    /\ mock = "vision"
    /\ item_name = "" /\ skw = ""
    /\ n = 1 /\ level = 0 /\ idx = 1
    /\ lab = [k \in 1..4 |-> ""]
    /\ conf = [k \in 1..4 |-> 0]
    /\ calls = [k \in Stages |-> 0]
    /\ passed = [k \in Stages |-> <<>>]
    /\ records = <<>>
    /\ status = 0

pipelineVars == <<impl, csv_path, mock, n, level, idx, lab, conf, calls, passed, records,
                  status, skwVars>>

\* preprocess_images and the early return of extract_features_with_voting
ImgPreprocess ==
    /\ impl = "api9" /\ pc = "start"
    /\ LET kept == SelectSeq([i \in 1..Len(images) |-> i],
                             LAMBDA i : images[i].fetch = "ok")
       IN  /\ processed' = kept
           /\ files' = {i \in 1..Len(images) : images[i].fetch \in {"ok", "unsavable"}}
           /\ IF kept = <<>>
              THEN /\ features' = NoPrediction
                   /\ metadata' = [method |-> "error", num_images |-> 0,
                                   error |-> "Failed to download/process any images"]
                   /\ pc' = "done"
              ELSE /\ pc' = "generate"
                   /\ UNCHANGED <<features, metadata>>
    /\ UNCHANGED <<pipelineVars, images, results, submitted>>

Submit(ids) == [i \in DOMAIN submitted |-> submitted[i] + (IF i \in ids THEN 1 ELSE 0)]

\* the first model.generate call and the has_valid_results scan
ImgGenerate ==
    /\ impl = "api9" /\ pc = "generate"
    /\ submitted' = Submit(Range(processed))
    /\ \/ /\ pc' = "raised"                        \* the call raises:
          /\ files' = files \ Range(processed)      \* finally unlinks
          /\ UNCHANGED <<results, features, metadata>>
       \/ LET res == [k \in 1..Len(processed) |-> Predicted(images[processed[k]].first, k)]
          IN  /\ results' = res
              /\ pc' = IF has_valid_results(res) THEN "aggregate" ELSE "retry"
              /\ UNCHANGED <<files, features, metadata>>
    /\ UNCHANGED <<pipelineVars, images, processed>>

\* the second model.generate call, with the simplified description
ImgRetry ==
    /\ impl = "api9" /\ pc = "retry"
    /\ submitted' = Submit(Range(processed))
    /\ \/ /\ pc' = "raised"                        \* the call raises:
          /\ files' = files \ Range(processed)      \* finally unlinks
          /\ UNCHANGED <<results, features, metadata>>
       \/ \E second \in [1..Len(processed) -> SecondPass] :
              /\ results' = [k \in 1..Len(processed) |-> Predicted(second[k], k)]
              /\ pc' = "aggregate"
              /\ UNCHANGED <<files, features, metadata>>
    /\ UNCHANGED <<pipelineVars, images, processed>>

\* the finally block, then the single-image return or the voting loop
ImgAggregate ==
    /\ impl = "api9" /\ pc = "aggregate"
    /\ files' = files \ Range(processed)
    /\ IF Len(images) = 1 /\ results # <<>> /\ DOMAIN results[1] # {}
       THEN /\ features' = cleaned_features(results[1])
            /\ metadata' = [method |-> "single_image",
                            warning |-> "Some features returned 'no'"]
       ELSE /\ features' = final_features(results)
            /\ metadata' = [method |-> "majority_voting",
                            num_images |-> Len(images),
                            voting_details |-> voting_details(results)]
    /\ pc' = "done"
    /\ UNCHANGED <<pipelineVars, images, processed, results, submitted>>

\* extract_features of extract_image_features.py
ScriptExtract ==
    /\ impl = "script" /\ pc = "start"
    /\ submitted' = Submit(1..Len(images))
    /\ \/ /\ pc' = "raised"
          /\ UNCHANGED <<results, features, metadata>>
       \/ LET res == [k \in 1..Len(images) |-> Predicted(images[k].first, k)]
          IN  /\ results' = res
              /\ pc' = "done"
              /\ IF Len(images) = 1
                 THEN /\ features' = res[1]
                      /\ metadata' = [method |-> "single_image", num_images |-> 1]
                 ELSE /\ features' = script_final_features(res)
                      /\ metadata' = [method |-> "majority_voting",
                                      num_images |-> Len(images),
                                      voting_details |-> script_voting_details(res)]
    /\ UNCHANGED <<pipelineVars, images, processed, files>>

NextImage == ImgPreprocess \/ ImgGenerate \/ ImgRetry \/ ImgAggregate \/ ScriptExtract

SpecImage == InitImage /\ [][NextImage]_vars

Next ==
    \/ CsvBegin \/ CsvL1 \/ CsvL2 \/ CsvL3 \/ CsvL4 \/ CsvSKW \/ CsvDSW \/ CsvATTR
    \/ RowBegin \/ RowL1 \/ RowL2 \/ RowL3 \/ RowSKW \/ RowDSW \/ RowATTR
    \/ BatchBegin \/ BatchL1 \/ BatchL2 \/ BatchL3
    \/ ItemBegin \/ ItemL1 \/ ItemL2 \/ ItemL3 \/ ItemL4
    \/ ItemSKW \/ ItemDSW \/ ItemATTR \/ ItemTR
    \/ AllBegin \/ AllL1 \/ AllL2 \/ AllL3 \/ AllL4

Spec == Init /\ [][Next]_vars

\* the handler is not finished and does not wait for a completion request
\* that never returns
Ready == pc # "done" /\ (pc = "start" \/ \A k \in Stages : OutcomesAt(k) # {})

\* a handler that is ready moves on to a further statement: its thread is
\* scheduled again and again
SpecLive ==
    /\ Init /\ [][Next]_vars
    /\ WF_<<pc, idx>>(/\ Ready
                      /\ pc' \in {"L1", "L2", "L3", "L4", "SKW", "DSW", "ATTR", "TR", "done"}
                      /\ idx' \in 0..MaxRows)

(***************************************************************************)
(* Properties of one classifier call (SpecClassify)                        *)
(***************************************************************************)

\* C1: the label a level classifier returns is the empty string or a member
\* of the allowed set of its level for the ancestors it was handed, whatever
\* the completion service answered.
C1_LabelAllowedOrEmpty ==
    pc = "returned" => lab[level] \in AllowedSet(impl, level, lab) \cup {""}

\* a Level-3 call below (fashion, casual wear) that resolved after a request
C1_Witness ==
    /\ pc = "returned" /\ impl = "flask" /\ level = 3
    /\ lab[3] = "t-shirt" /\ calls[3] = 1

\* C2: for N in 2..4, a level-N classifier handed the empty string as the
\* label of level N-1 returns ("", 0) and issues no completion request.
C2_EmptyParentShortCircuits ==
    (pc # "call" /\ level \in 2..4 /\ lab[level - 1] = "") =>
        /\ pc = "returned"
        /\ lab[level] = "" /\ conf[level] = 0
        /\ calls[level] = 0

\* a Level-3 call with an empty Level-2 label, the service ready to answer
\* with a label that is valid below (fashion, casual wear)
C2_Witness ==
    /\ pc = "returned" /\ impl = "flask" /\ level = 3
    /\ lab[1] = "fashion" /\ lab[2] = "" /\ mock = Reply("t-shirt|confidence:90%")
    /\ lab[3] = "" /\ calls[3] = 0

\* C7 as stated: in the pair a level classifier returns, the label is the
\* empty string exactly when the confidence is 0.
C7_EmptyIffZero ==
    (impl = "flask" /\ pc = "returned") => (lab[level] = "" <=> conf[level] = 0)

\* C7, the direction that holds: in the pair a level classifier returns, an
\* empty label comes with confidence 0 (a validated label may come with
\* confidence 0 too).
C7_EmptyThenZero ==
    (impl = "flask" /\ pc = "returned") => (lab[level] = "" => conf[level] = 0)

\* a rejected label whose response stated a confidence of 90
C7_Witness ==
    /\ impl = "flask" /\ pc = "returned" /\ calls[level] = 1
    /\ mock = Reply("gadgets|confidence:90%")
    /\ lab[level] = "" /\ conf[level] = 0

\* C8: the confidence a level classifier returns is an integer in 0..100,
\* whatever the completion service answered.
C8_ConfidenceInRange ==
    (impl = "flask" /\ pc = "returned") => conf[level] \in 0..100

(***************************************************************************)
(* Properties of the pipelines (Spec)                                      *)
(***************************************************************************)

\* C3: in every record a pipeline produces, level N is resolved (not empty,
\* not the sentinel) only if level N-1 is resolved.
C3_ResolvedOnlyBelowResolved ==
    \A i \in 1..Len(Produced) :
        \A N \in 2..Len(Produced[i].labels) :
            Produced[i].labels[N] \notin {"", Sentinel}
                => Produced[i].labels[N - 1] \notin {"", Sentinel}

\* a produced record resolved down to Level 2 and unresolved from Level 3
C3_Witness ==
    \E i \in 1..Len(Produced) :
        /\ Produced[i].labels[1] = "fashion"
        /\ Produced[i].labels[2] = "casual wear"
        /\ Produced[i].labels[3] \in {"", Sentinel}

\* C4: the Pipeline Orchestrator never hands the sentinel "template" to a
\* dependent stage as a taxonomy value.
C4_SentinelNeverPassed ==
    \A k \in Stages : \A i \in 1..Len(passed[k]) : passed[k][i] # Sentinel

\* C5: when the Level-1 response is "I cannot decide", the record of the
\* item carries ("", 0) for Level 1 and ("template", 0) for Levels 2-4, and
\* no completion request is issued for Levels 2-4.
C5_UndecidedRecord ==
    (mock = "undecided" /\ impl \in {"csv", "row", "item"} /\ pc = "done" /\ n > 0) =>
        /\ status = 200
        /\ LET rec == records[Len(records)]
           IN  /\ rec.labels[1] = ""
               /\ \A N \in 2..Len(rec.labels) : rec.labels[N] = Sentinel
               /\ "confs" \in DOMAIN rec => \A N \in 1..4 : rec.confs[N] = 0
        /\ \A N \in 2..4 : calls[N] = 0

\* C6: for the Cotton T-Shirt item (responses fashion 90, casual wear 85,
\* t-shirt 92, no Level-4 label) the record is (fashion, 90),
\* (casual wear, 85), (t-shirt, 92), ("template", 0).
C6_TShirtRecord ==
    (mock = "tshirt" /\ impl \in {"csv", "item"} /\ pc = "done" /\ n > 0) =>
        /\ status = 200
        /\ records[Len(records)].labels
               = <<"fashion", "casual wear", "t-shirt", Sentinel>>
        /\ records[Len(records)].confs = <<90, 85, 92, 0>>

\* C9: when the completion request of a stage fails, the stage returns its
\* empty result and nothing is raised to the orchestrator: the item and the
\* remaining rows are processed and every row gets its record.
C9_FailureAbsorbed ==
    (mock = "outage" /\ pc = "done" /\ n > 0) =>
        status = 200 /\ Len(records) = n

\* C10: in the JSON master pipeline an unresolved label is never fatal:
\* process_item completes with status 200 and an enriched item in which
\* that level and the later ones are unresolved.
C10_UnresolvedNotFatal ==
    (impl = "item" /\ mock = "undecided" /\ pc = "done") =>
        /\ status = 200
        /\ \A N \in 1..4 : records[Len(records)].labels[N] \in {"", Sentinel}

\* C11: a batch of n items always yields exactly n output records: a failure
\* while one item is processed becomes that item's error record and the
\* remaining items are still processed.
C11_OneRecordPerItem ==
    (impl \in {"csv", "row", "batch"} /\ pc = "done" /\ n > 0) =>
        status = 200 /\ Len(Produced) = n

(***************************************************************************)
(* Properties of generate_skw (SpecSKW)                                    *)
(***************************************************************************)

\* C12: for an item name with at least one token and any completion
\* response, the first phrase of the returned string is the product noun
\* alone: the last whitespace-delimited token of the name (hyphens taken as
\* spaces), lower-cased then title-cased.
C12_FirstPhraseIsNoun ==
    (impl = "skw" /\ pc = "returned") =>
        Split(skw, ", ")[1] = Title(product_noun(item_name))

\* the response put another phrase before the noun
C12_Witness ==
    /\ impl = "skw" /\ pc = "returned"
    /\ item_name = "Cotton T-Shirt" /\ mock = Reply("Cotton Shirt, Shirt")
    /\ skw = "Shirt, Cotton Shirt"

\* C13: whatever phrases the completion response holds, the returned string
\* has at most 5 phrases and no phrase occurs in it twice.
C13_AtMostFiveDistinct ==
    (impl = "skw" /\ pc = "returned") =>
        LET phrases == Split(skw, ", ")
        IN  /\ Len(phrases) <= 5
            /\ \A i, j \in 1..Len(phrases) : i # j => phrases[i] # phrases[j]

\* six phrases with a repetition came back and five distinct ones are kept
C13_Witness ==
    /\ impl = "skw" /\ pc = "returned"
    /\ item_name = "Red Tote Bag"
    /\ mock = Reply("Tote Bag,Red Bag,Tote Bag,Big Bag,Bag,Sea Bag")
    /\ skw = "Bag, Tote Bag, Red Bag, Big Bag, Sea Bag"

\* C14: for a non-empty item name, also one made only of whitespace or
\* hyphens, and any completion response, generate_skw returns a string with
\* at least one phrase.
C14_AlwaysAPhrase ==
    (impl = "skw" /\ pc # "call" /\ item_name # "" /\ mock.ok) =>
        pc = "returned" /\ skw # ""

(***************************************************************************)
(* Properties of the image attribute aggregation (SpecImage)               *)
(***************************************************************************)

\* C15: in the features the image aggregator returns, on the single-image
\* and on the multi-image path, no attribute has a value that is, case
\* ignored, one of the tokens no, n/a, none, unknown, and no such prediction
\* is among the values counted as votes.
C15_NoSentinelReturned ==
    (impl \in {"api9", "script"} /\ pc = "done") =>
        /\ \A a \in DOMAIN features : Lower(features[a].value) \notin SentinelValues
        /\ "voting_details" \in DOMAIN metadata =>
               \A a \in DOMAIN metadata.voting_details :
                   \A v \in Range(metadata.voting_details[a].all_values) :
                       Lower(v) \notin SentinelValues

\* C16: when several images were predicted, the value selected for an
\* attribute is one of its surviving (non-sentinel) per-image predictions,
\* no other surviving value occurs more often, and of the values that occur
\* as often none occurs earlier in image order; an attribute with a
\* surviving prediction has a selected value.
C16_MostFrequentEarliestFirst ==
    (impl = "api9" /\ pc = "done" /\ Len(processed) >= 2) =>
        \A a \in Attributes :
            LET surv == {i \in 1..Len(results) :
                            /\ a \in DOMAIN results[i]
                            /\ Lower(results[i][a].value) \notin SentinelValues}
                cnt(v) == Cardinality({i \in surv : results[i][a].value = v})
                first(v) == CHOOSE i \in surv :
                                /\ results[i][a].value = v
                                /\ \A j \in surv : results[j][a].value = v => i <= j
            IN  /\ a \in DOMAIN features <=> surv # {}
                /\ a \in DOMAIN features =>
                       LET sel == features[a].value
                       IN  /\ \E i \in surv : results[i][a].value = sel
                           /\ \A i \in surv :
                                  LET w == results[i][a].value
                                  IN  /\ cnt(w) <= cnt(sel)
                                      /\ cnt(w) = cnt(sel) => first(sel) <= first(w)

\* two images, blue predicted for the first and green for the second: one
\* vote each, and blue, seen first, is selected
C16_Witness ==
    /\ impl = "api9" /\ pc = "done" /\ Len(results) = 2
    /\ "color" \in DOMAIN results[1] /\ results[1]["color"].value = "blue"
    /\ "color" \in DOMAIN results[2] /\ results[2]["color"].value = "green"
    /\ "color" \in DOMAIN features /\ features["color"].value = "blue"

C18_UnvotedOmittedAndFlagged ==
    (impl = "api9" /\ pc = "done" /\ metadata.method = "majority_voting") =>
        \A a \in Attributes :
            (\A i \in 1..Len(results) :
                 a \in DOMAIN results[i] =>
                     Lower(results[i][a].value) \in SentinelValues)
            => /\ a \notin DOMAIN features
               /\ a \in DOMAIN metadata.voting_details

\* C19: whenever exactly one image of the request was fetched and decoded,
\* the aggregator returns the filtered prediction set of that image with
\* method = single_image, also when the request listed further images.
C19_OneValidImageIsSingle ==
    (impl = "api9" /\ pc = "done" /\ Len(processed) = 1) =>
        /\ metadata.method = "single_image"
        /\ DOMAIN features = {a \in DOMAIN results[1] :
                                 Lower(results[1][a].value) \notin SentinelValues}
        /\ \A a \in DOMAIN features : features[a].value = results[1][a].value

\* C20: within one aggregation call no image is submitted to the vision
\* model more than once, and when the call has returned every image it
\* predicted was submitted exactly once.
C20_SubmittedOnce ==
    impl \in {"api9", "script"} =>
        /\ \A i \in DOMAIN submitted : submitted[i] <= 1
        /\ pc = "done" =>
               \A i \in Range(processed) : submitted[i] = 1

(***************************************************************************)
(* Properties of the pipelines, continued                                  *)
(***************************************************************************)

\* C21: every completion request carries a timeout, so the processing that
\* a handler has started eventually finishes, also when the completion
\* service never responds.
C21_EventuallyFinishes == <>(pc = "done")

\* C22: in process_csv_pipeline and process_item the stages of an item run
\* as one chain L1, L2, L3, L4, SKW, DSW, attributes (a step goes to the next
\* stage, to the end of the handler, or from the last stage to Level 1 of
\* the next item), each taxonomy stage is handed the labels the earlier
\* levels returned, the SKW, DSW and attribute stages are handed the Level-3
\* label, and no level issues more than one request per item.
C22_StrictLinearChain ==
    [][(impl \in {"csv", "item"} =>
          /\ pc' \in (CASE pc = "start" -> {"L1", "done"}
                        [] pc = "L1" -> {"L2", "done"}
                        [] pc = "L2" -> {"L3", "done"}
                        [] pc = "L3" -> {"L4", "done"}
                        [] pc = "L4" -> {"SKW", "done"}
                        [] pc = "SKW" -> {"DSW", "done"}
                        [] pc = "DSW" -> {"ATTR", "done"}
                        [] pc = "ATTR" -> {"TR", "L1", "done"}
                        [] pc = "TR" -> {"done"}
                        [] OTHER -> {})
          /\ pc = "L2" => passed'[2] = <<lab[1]>>
          /\ pc = "L3" => passed'[3] = <<lab[1], lab[2]>>
          /\ pc = "L4" => passed'[4] = <<lab[1], lab[2], lab[3]>>
          /\ pc = "SKW" => passed'[SKW] = <<lab[3]>>
          /\ pc = "DSW" => passed'[DSW] = <<lab[3]>>
          /\ pc = "ATTR" => passed'[ATTR][3] = lab[3]
          /\ \A k \in 1..4 : calls'[k] <= 1)]_vars

\* process_csv_pipeline has classified a row as fashion / casual wear /
\* t-shirt with one request per level and has handed "t-shirt" to generate_skw
C22_Witness ==
    /\ impl = "csv" /\ pc = "DSW"
    /\ lab[1] = "fashion" /\ lab[2] = "casual wear" /\ lab[3] = "t-shirt"
    /\ passed[2] = <<"fashion">> /\ passed[3] = <<"fashion", "casual wear">>
    /\ passed[SKW] = <<"t-shirt">>
    /\ \A k \in 1..3 : calls[k] = 1

(***************************************************************************)
(* Properties of one classifier call, continued (SpecClassify)             *)
(***************************************************************************)

\* C23: at every level, Level 1 included, a one-line response without the
\* |confidence suffix that is, once lower-cased, freed of quotes,
\* apostrophes and colons and trimmed, a label of the allowed set, yields
\* that label with confidence 0.
C23_BareLabelAccepted ==
    LET t == Strip(Remove(Remove(Remove(Lower(mock.text), "'"), "\""), ":"))
    IN  (/\ impl = "flask" /\ pc = "returned" /\ mock.ok
         /\ ~Contains(mock.text, "\n") /\ ~Contains(t, "|confidence")
         /\ t \in AllowedSet(impl, level, lab))
        => lab[level] = t /\ conf[level] = 0

\* C24: at every level 1-4 the pair a classifier returns is the pair it
\* returns for the first line of the response alone, so that two responses
\* with the same first line yield the same (label, confidence).
C24_FirstLineDecides ==
    (impl = "flask" /\ pc = "returned" /\ mock.ok) =>
        LET first == Reply(FirstLine(Strip(mock.text)))
            r == CASE level = 1 -> classify_shopping_category(first)
                   [] level = 2 -> classify_shopping_subcategory(lab[1], first)
                   [] level = 3 -> classify_item_category(lab[1], lab[2], first)
                   [] level = 4 -> classify_item_subcategory(lab[1], lab[2], lab[3], first)
        IN  (~r.raised /\ r.called) => (lab[level] = r.label /\ conf[level] = r.confidence)

(***************************************************************************)
(* Properties of the pipelines, continued (Spec)                           *)
(***************************************************************************)

\* C25: the translation stage of process_item never fails the item:
\* whatever happens to the translation request, the step that runs the stage
\* ends with status 200 and the enriched record of the item, which holds the
\* taxonomy results computed before.
C25_TranslationNeverFatal ==
    [][((impl = "item" /\ pc = "TR") =>
           /\ pc' = "done" /\ status' = 200
           /\ Len(records') = 1
           /\ records'[1].labels = <<lab[1], lab[2], lab[3], lab[4]>>)]_vars

(***************************************************************************)
(* Properties of one classifier call, continued (SpecClassify)             *)
(***************************************************************************)

\* C26: a level-N classifier of src/app.py, N in 2..4, that is handed an empty ancestor
\* label, a Level-1 label outside the fixed shopping categories, or a further
\* ancestor that is not an allowed child of its own parent path, returns the
\* empty result ("", 0) and issues no completion request.
C26_RequestOnlyOnValidPath ==
    (impl = "app" /\ pc # "call" /\ level \in 2..4) =>
        \/ \A j \in 1..(level - 1) : lab[j] # "" /\ lab[j] \in AllowedSet(impl, j, lab)
        \/ /\ pc = "returned" /\ calls[level] = 0
           /\ lab[level] = "" /\ conf[level] = 0

\* C27: every label of an allowed set of src/app.py is reachable. For each
\* Level-1 parent and each label allowed under it, a label with an apostrophe
\* such as "men's care" included, some completion response makes
\* classify_shopping_subcategory return exactly that label.
C27_EveryLabelReachable ==
    (impl = "app" /\ level = 2 /\ pc = "call") =>
        \A l \in AllowedSet(impl, level, lab) \cap ClassifyLabels :
            \E t \in ClassifyTexts :
                app_classify_shopping_subcategory(lab[1], Reply(t)).label = l

\* C28: the taxonomy of src/app.py is total downwards. Whenever
\* classify_item_category is handed a Level-1 category of the shopping-category
\* list and a Level-2 label allowed under it, a Level-3 allowed set exists for
\* the path and the completion service is consulted: the call never returns
\* unresolved without a request.
C28_TaxonomyTotalDownwards ==
    (/\ impl = "app" /\ level = 3 /\ pc # "call"
     /\ lab[1] \in shopping_categories
     /\ lab[2] \in AllowedSet(impl, 2, lab)) =>
        /\ lab[1] \in DOMAIN category_item_map
        /\ lab[2] \in DOMAIN category_item_map[lab[1]]
        /\ calls[3] = 1

(***************************************************************************)
(* Properties of the image pipeline, continued (SpecImage)                 *)
(***************************************************************************)

\* C29: when extract_features_with_voting has returned or raised, no
\* temporary image file created by preprocess_images during the call is left
\* on disk, also when saving an image failed and when model.generate raised.
C29_TempFilesDeleted ==
    (impl = "api9" /\ pc \in {"done", "raised"}) => files = {}

(***************************************************************************)
(* Properties of the CSV pipeline endpoint, continued (Spec)               *)
(***************************************************************************)

\* C30: a request to process_csv_pipeline without csv_path is answered with
\* status 400, never with 500, and no row is read and no completion request
\* is issued for it.
C30_MissingPathRejected ==
    (impl = "csv" /\ csv_path = None /\ pc = "done") =>
        /\ status = 400
        /\ records = <<>>
        /\ \A k \in Stages : calls[k] = 0

====
